---------------------------- MODULE Spec2Model ----------------------------
(***************************************************************************)
(* Model of the PDF-to-podcast notebooks (notebooks/featherless_podcast).  *)
(* The cells of the notebooks are the operations; a run executes them in   *)
(* order and stops at the first cell that raises.                          *)
(*                                                                         *)
(* A Python str is a sequence of characters.  A Python value that may be   *)
(* None is a record [tag, s]: Str(s) or None.  A file is such a value too, *)
(* or Absent.                                                              *)
(***************************************************************************)
EXTENDS Integers, Sequences, FiniteSets, TLC

VARIABLES
    pc,              \* the cell the run is about to execute
    pdf_state,       \* "missing", "not_pdf", "corrupt" or "ok": the file at pdf_path
    pdf_text,        \* what pymupdf4llm.to_markdown yields for a readable document
    files,           \* the file system: file name -> Str(content) or Absent
    extracted_text,  \* kernel variable of the extraction cell
    CHUNK_SIZE,      \* configuration: target chunk size
    chunks,          \* kernel variable: list of chunk strings
    num_chunks,      \* kernel variable: the reported chunk count
    processed_text,  \* kernel variable: accumulated cleaned text
    chunk_num,       \* loop index of the chunk processing loop
    out_open,        \* TRUE while the clean_ file is open for writing
    request_log,     \* every request sent to the remote model, in order
    calls,           \* history of the transform calls and their outcomes
    podcast_content, \* kernel variable of the dialogue driver cell
    reported,        \* what the completion report printed
    dialogue_msg,    \* what the dialogue driver cell printed: "saved" or "failed"
    turns,           \* audio stage: the validated turn sequence
    voice_catalog,   \* audio stage: the ordered list of available voices
    engine_rate,     \* audio stage: sample rate the TTS engine produces
    formats,         \* audio stage: the requested container formats
    audio_pc,        \* audio stage: "assign", "synth", "assembled" or an error
    assignment,      \* audio stage: speaker -> voice
    synth_calls,     \* audio stage: every call made to the TTS engine, in order
    submitted,       \* audio stage: the segments in the order they were completed
    track,           \* audio stage: the assembled track
    manifest         \* audio stage: the formats that were written

pipeline_vars == <<pc, pdf_state, pdf_text, files, extracted_text, CHUNK_SIZE,
                   chunks, num_chunks, processed_text, chunk_num, out_open,
                   request_log, calls, podcast_content, reported, dialogue_msg>>

audio_vars == <<turns, voice_catalog, engine_rate, formats, audio_pc,
                assignment, synth_calls, submitted, track, manifest>>

vars == <<pipeline_vars, audio_vars>>

-----------------------------------------------------------------------------
(* Bounds of the model *)

MaxWords == 4        \* words of a chunker input
MaxTarget == 6       \* largest target chunk size
MaxDocWords == 3     \* words of a document run through the whole pipeline

-----------------------------------------------------------------------------
(* Python values *)

Str(s) == [tag |-> "str", s |-> s]
None == [tag |-> "None", s |-> <<>>]
Absent == [tag |-> "absent", s |-> <<>>]

\* a slip: "is not None" in place of truthiness
Truthy_notnone(v) == v.tag = "str"

\* truthiness of an Optional[str]: None and "" are falsy
Truthy(v) == v.tag = "str" /\ v.s # <<>>

Whitespace == {" ", "\n", "\t"}

Min(a, b) == IF a <= b THEN a ELSE b

\* s[:n]
Prefix(s, n) == SubSeq(s, 1, Min(Len(s), n))

RECURSIVE Concat(_)
\* ''.join(list)
Concat(list) ==
    IF list = <<>> THEN <<>> ELSE Head(list) \o Concat(Tail(list))

RECURSIVE JoinSp(_)
\* ' '.join(list)
JoinSp(list) ==
    IF list = <<>> THEN <<>>
    ELSE IF Len(list) = 1 THEN Head(list)
    ELSE Head(list) \o <<" ">> \o JoinSp(Tail(list))

RECURSIVE SplitFrom(_, _, _)
\* scan of str.split(): cur is the word being read, acc the words read
SplitFrom(text, cur, acc) ==
    IF text = <<>>
    THEN IF cur = <<>> THEN acc ELSE Append(acc, cur)
    ELSE IF Head(text) \in Whitespace
         THEN SplitFrom(Tail(text), <<>>,
                        IF cur = <<>> THEN acc ELSE Append(acc, cur))
         ELSE SplitFrom(Tail(text), Append(cur, Head(text)), acc)

\* text.split(): the maximal runs of non-whitespace characters
Split(text) == SplitFrom(text, <<>>, <<>>)

-----------------------------------------------------------------------------
(* create_word_bounded_chunks *)

ChunkerStart == [chunks |-> <<>>, current_chunk |-> <<>>, current_length |-> 0]

\* a slip: the length of the word that opens a chunk is not counted
LoopBody_uncounted(st, word, target_chunk_size) ==
    LET word_length == Len(word) + 1 IN
    IF st.current_length + word_length > target_chunk_size
       /\ st.current_chunk # <<>>
    THEN [chunks |-> Append(st.chunks, JoinSp(st.current_chunk)),
          current_chunk |-> <<word>>,
          current_length |-> 0]
    ELSE [chunks |-> st.chunks,
          current_chunk |-> Append(st.current_chunk, word),
          current_length |-> st.current_length + word_length]

\* a slip: the separating space is not counted
LoopBody_nospace(st, word, target_chunk_size) ==
    LET word_length == Len(word) IN
    IF st.current_length + word_length > target_chunk_size
       /\ st.current_chunk # <<>>
    THEN [chunks |-> Append(st.chunks, JoinSp(st.current_chunk)),
          current_chunk |-> <<word>>,
          current_length |-> word_length]
    ELSE [chunks |-> st.chunks,
          current_chunk |-> Append(st.current_chunk, word),
          current_length |-> st.current_length + word_length]

\* a slip: >= in place of >
LoopBody_eager(st, word, target_chunk_size) ==
    LET word_length == Len(word) + 1 IN
    IF st.current_length + word_length >= target_chunk_size
       /\ st.current_chunk # <<>>
    THEN [chunks |-> Append(st.chunks, JoinSp(st.current_chunk)),
          current_chunk |-> <<word>>,
          current_length |-> word_length]
    ELSE [chunks |-> st.chunks,
          current_chunk |-> Append(st.current_chunk, word),
          current_length |-> st.current_length + word_length]

\* one iteration of "for word in words"
LoopBody(st, word, target_chunk_size) ==
    LET word_length == Len(word) + 1 IN
    IF st.current_length + word_length > target_chunk_size
       /\ st.current_chunk # <<>>
    THEN [chunks |-> Append(st.chunks, JoinSp(st.current_chunk)),
          current_chunk |-> <<word>>,
          current_length |-> word_length]
    ELSE [chunks |-> st.chunks,
          current_chunk |-> Append(st.current_chunk, word),
          current_length |-> st.current_length + word_length]

RECURSIVE ForWords(_, _, _)
ForWords(st, words, target_chunk_size) ==
    IF words = <<>> THEN st
    ELSE ForWords(LoopBody(st, Head(words), target_chunk_size),
                  Tail(words), target_chunk_size)

\* a slip: the running chunk is not flushed after the loop
LastChunk_dropped(st) == st.chunks

\* "Add the last chunk if it exists"
LastChunk(st) ==
    IF st.current_chunk # <<>>
    THEN Append(st.chunks, JoinSp(st.current_chunk))
    ELSE st.chunks

create_word_bounded_chunks(text, target_chunk_size) ==
    LastChunk(ForWords(ChunkerStart, Split(text), target_chunk_size))


-----------------------------------------------------------------------------
(* Configuration and the remote model *)

max_chars == 60000

EXTRACTED == "extracted_text.txt"          \* output_file of the extraction cell, INPUT_FILE
CLEAN == "clean_extracted_text.txt"        \* f"clean_{os.path.basename(INPUT_FILE)}"
PODCAST == "new_generated_podcast.txt"
FileNames == {EXTRACTED, CLEAN, PODCAST}

\* Outcome of a Python call: a returned value or a raised exception
Return(v) == [kind |-> "return", value |-> v, cause |-> "none"]
Raise(e) == [kind |-> "raise", value |-> None, cause |-> e]

\* Texts the remote model may generate.  "S1:", "S2:" stand for the two
\* canonical speaker labels, "S3:" for any other label.
Replies ==
    { <<>>,
      <<"S1:", "x", "\n", "S2:", "y">>,
      <<"S3:", "x">> }

\* What one requests.post can meet: a transport error, a non-2xx status,
\* or a 2xx body whose message content is a string or null.
Responses ==
    [kind : {"transport_error", "http_error"}, content : {None}]
    \cup [kind : {"ok"}, content : {None} \cup {Str(r) : r \in Replies}]

\* requests.post(...); response.raise_for_status();
\* response.json()["choices"][0]["message"]["content"]
PostAndRead(resp) ==
    IF resp.kind = "transport_error" THEN Raise("ConnectionError")
    ELSE IF resp.kind = "http_error" THEN Raise("HTTPError")
    ELSE Return(resp.content)

\* a slip: the except clause returns nothing
process_chunk_none(text_chunk, resp) ==
    LET got == PostAndRead(resp) IN
    IF got.kind = "return" /\ got.value.tag = "str" THEN got
    ELSE Return(Str(<<>>))

\* a slip: no except clause, the exception reaches the loop
process_chunk_raising(text_chunk, resp) ==
    LET got == PostAndRead(resp) IN
    IF got.kind = "return" /\ got.value.tag # "str"
    THEN Raise("TypeError") ELSE got

\* process_chunk: the try body slices processed_text[:500] for the monitor
\* print, which raises TypeError on a null content; every exception is
\* caught and the original chunk returned.
process_chunk(text_chunk, resp) ==
    LET got == PostAndRead(resp)
        body == IF got.kind = "return" /\ got.value.tag # "str"
                THEN Raise("TypeError") ELSE got
    IN IF body.kind = "raise" THEN Return(Str(text_chunk)) ELSE body

\* a variant that lets the exception reach the caller
generate_podcast_raising(input_prompt, resp) ==
    PostAndRead(resp)

\* generate_podcast: every exception is caught and None returned
generate_podcast(input_prompt, resp) ==
    LET body == PostAndRead(resp) IN
    IF body.kind = "raise" THEN Return(None) ELSE body

\* a slip: the request is sent again without looking at the answer
SendRequest_twice(log, fn, content) ==
    Append(Append(log, [fn |-> fn, content |-> content]),
           [fn |-> fn, content |-> content])

\* requests.post: the one place a request leaves for the remote model
SendRequest(log, fn, content) ==
    Append(log, [fn |-> fn, content |-> content])

\* a slip: the newline is put between results instead of after each
AppendResult_between(text, processed_chunk) ==
    IF text = <<>> THEN processed_chunk
    ELSE text \o <<"\n">> \o processed_chunk

\* a slip: the new result is put in front of what is already written
AppendResult_prepend(text, processed_chunk) ==
    processed_chunk \o <<"\n">> \o text

\* processed_text += processed_chunk + "\n"; out_file.write(processed_chunk + "\n")
AppendResult(text, processed_chunk) ==
    text \o processed_chunk \o <<"\n">>

\* the request met a transport error or a non-2xx status
Failed(resp) == PostAndRead(resp).kind = "raise"

\* read_file_to_string: the content, or None when the file is not there
read_file_to_string(fs, name) ==
    IF fs[name].tag = "str" THEN fs[name] ELSE None

-----------------------------------------------------------------------------
(* Inputs *)

Words == { <<"a">>, <<"b", "b">>, <<"a", "b", "a", "b", "b">> }
Gaps == { <<" ">>, <<" ", " ">>, <<"\n">>, <<" ", "\t">> }
Margins == { <<>>, <<" ">> }

SeqsUpTo(S, n) == UNION {[1..k -> S] : k \in 0..n}

RECURSIVE JoinWith(_, _)
JoinWith(list, gap) ==
    IF list = <<>> THEN <<>>
    ELSE IF Len(list) = 1 THEN Head(list)
    ELSE Head(list) \o gap \o JoinWith(Tail(list), gap)

\* texts given to the chunker alone
ChunkerTexts ==
    { lead \o JoinWith(ws, gap) \o trail :
        ws \in SeqsUpTo(Words, MaxWords), gap \in Gaps,
        lead \in Margins, trail \in Margins }

DocWords == { <<"a">>, <<"b", "b">> }

\* texts of the documents run through the whole pipeline
DocTexts == { JoinWith(ws, <<" ">>) : ws \in SeqsUpTo(DocWords, MaxDocWords) }

StaleText == <<"b", "b", " ", "a">>

-----------------------------------------------------------------------------
(* The cells *)

\* validate_pdf
validate_pdf(state) == state \notin {"missing", "not_pdf"}

\* extract_text_from_pdf
extract_text_from_pdf(state, markdown_text) ==
    IF ~validate_pdf(state) THEN None
    ELSE IF state = "corrupt" THEN None
    ELSE Str(Prefix(markdown_text, max_chars))

\* the extraction driver cell
ExtractCell ==
    /\ pc = "extract"
    /\ extracted_text' = extract_text_from_pdf(pdf_state, pdf_text)
    /\ files' = IF Truthy(extracted_text')
                THEN [files EXCEPT ![EXTRACTED] = extracted_text']
                ELSE files
    /\ pc' = "create_chunks"
    /\ UNCHANGED <<pdf_state, pdf_text, CHUNK_SIZE, chunks, num_chunks,
                   processed_text, chunk_num, out_open, request_log, calls,
                   podcast_content, reported>>
    /\ UNCHANGED <<dialogue_msg, audio_vars>>

\* the cell that reads INPUT_FILE and creates the chunks; open() raises
\* FileNotFoundError when the file is not there and the run stops
CreateChunksCell ==
    /\ pc = "create_chunks"
    /\ IF files[EXTRACTED].tag = "str"
       THEN /\ chunks' = create_word_bounded_chunks(files[EXTRACTED].s, CHUNK_SIZE)
            /\ num_chunks' = Len(chunks')
            /\ pc' = "init_output"
       ELSE /\ pc' = "error"
            /\ UNCHANGED <<chunks, num_chunks>>
    /\ UNCHANGED <<pdf_state, pdf_text, files, extracted_text, CHUNK_SIZE,
                   processed_text, chunk_num, out_open, request_log, calls,
                   podcast_content, reported>>
    /\ UNCHANGED <<dialogue_msg, audio_vars>>

\* the cell that initialises processed_text and recomputes num_chunks
InitOutputCell ==
    /\ pc = "init_output"
    /\ processed_text' = <<>>
    /\ num_chunks' = (Len(files[EXTRACTED].s) + CHUNK_SIZE - 1) \div CHUNK_SIZE
    /\ pc' = "open_output"
    /\ UNCHANGED <<pdf_state, pdf_text, files, extracted_text, CHUNK_SIZE,
                   chunks, chunk_num, out_open, request_log, calls,
                   podcast_content, reported>>
    /\ UNCHANGED <<dialogue_msg, audio_vars>>

\* with open(output_file, 'w'): the file is created or truncated
OpenOutput ==
    /\ pc = "open_output"
    /\ files' = [files EXCEPT ![CLEAN] = Str(<<>>)]
    /\ out_open' = TRUE
    /\ chunk_num' = 0
    /\ pc' = "loop"
    /\ UNCHANGED <<pdf_state, pdf_text, extracted_text, CHUNK_SIZE, chunks,
                   num_chunks, processed_text, request_log, calls,
                   podcast_content, reported>>
    /\ UNCHANGED <<dialogue_msg, audio_vars>>

\* one iteration of the chunk processing loop
LoopIteration ==
    /\ pc = "loop"
    /\ chunk_num < Len(chunks)
    /\ \E resp \in Responses :
         LET chunk == chunks[chunk_num + 1]
             out == process_chunk(chunk, resp)
         IN /\ request_log' = SendRequest(request_log, "process_chunk", Str(chunk))
            /\ calls' = Append(calls, [fn |-> "process_chunk", arg |-> Str(chunk),
                                       response |-> resp, outcome |-> out])
            /\ IF out.kind = "return"
               THEN /\ processed_text' = AppendResult(processed_text, out.value.s)
                    /\ files' = [files EXCEPT
                                   ![CLEAN] = Str(AppendResult(@.s, out.value.s))]
                    /\ chunk_num' = chunk_num + 1
                    /\ UNCHANGED <<pc, out_open>>
               ELSE /\ pc' = "error"
                    /\ out_open' = FALSE
                    /\ UNCHANGED <<processed_text, files, chunk_num>>
    /\ UNCHANGED <<pdf_state, pdf_text, extracted_text, CHUNK_SIZE, chunks,
                   num_chunks, podcast_content, reported>>
    /\ UNCHANGED <<dialogue_msg, audio_vars>>

\* the loop is exhausted and the with block closes the file
LoopExit ==
    /\ pc = "loop"
    /\ chunk_num = Len(chunks)
    /\ out_open' = FALSE
    /\ pc' = "report"
    /\ UNCHANGED <<pdf_state, pdf_text, files, extracted_text, CHUNK_SIZE,
                   chunks, num_chunks, processed_text, chunk_num, request_log,
                   calls, podcast_content, reported>>
    /\ UNCHANGED <<dialogue_msg, audio_vars>>

\* the completion report cell
ReportCell ==
    /\ pc = "report"
    /\ reported' = num_chunks
    /\ pc' = "dialogue"
    /\ UNCHANGED <<pdf_state, pdf_text, files, extracted_text, CHUNK_SIZE,
                   chunks, num_chunks, processed_text, chunk_num, out_open,
                   request_log, calls, podcast_content>>
    /\ UNCHANGED <<dialogue_msg, audio_vars>>

\* the dialogue driver cell
DialogueCell ==
    /\ pc = "dialogue"
    /\ \E resp \in Responses :
         LET INPUT_PROMPT == read_file_to_string(files, EXTRACTED)
             out == generate_podcast(INPUT_PROMPT, resp)
         IN /\ request_log' = SendRequest(request_log, "generate_podcast", INPUT_PROMPT)
            /\ calls' = Append(calls, [fn |-> "generate_podcast", arg |-> INPUT_PROMPT,
                                       response |-> resp, outcome |-> out])
            /\ IF out.kind = "return"
               THEN /\ podcast_content' = out.value
                    /\ files' = IF Truthy(out.value)
                                THEN [files EXCEPT ![PODCAST] = out.value]
                                ELSE files
                    /\ dialogue_msg' = IF Truthy(out.value) THEN "saved" ELSE "failed"
                    /\ pc' = "done"
               ELSE /\ pc' = "error"
                    /\ UNCHANGED <<podcast_content, files, dialogue_msg>>
    /\ UNCHANGED <<pdf_state, pdf_text, extracted_text, CHUNK_SIZE, chunks,
                   num_chunks, processed_text, chunk_num, out_open, reported>>
    /\ UNCHANGED audio_vars

-----------------------------------------------------------------------------
(* Specifications *)

\* the audio stage is not part of the run
AudioIdle ==
    /\ turns = <<>>
    /\ voice_catalog = <<>>
    /\ engine_rate = 0
    /\ formats = {}
    /\ audio_pc = "idle"
    /\ assignment = <<>>
    /\ synth_calls = <<>>
    /\ submitted = <<>>
    /\ track = <<>>
    /\ manifest = {}

\* a run of the whole pipeline on a small document
Init ==
    /\ pc = "extract"
    /\ pdf_state \in {"missing", "not_pdf", "corrupt", "ok"}
    /\ pdf_text \in IF pdf_state = "ok" THEN DocTexts ELSE {<<>>}
    /\ files \in [FileNames -> {Absent, Str(StaleText)}]
    /\ files[CLEAN] = Absent
    /\ extracted_text = None
    /\ CHUNK_SIZE \in 1..MaxTarget
    /\ chunks = <<>>
    /\ num_chunks = 0
    /\ processed_text = <<>>
    /\ chunk_num = 0
    /\ out_open = FALSE
    /\ request_log = <<>>
    /\ calls = <<>>
    /\ podcast_content = None
    /\ reported = -1
    /\ dialogue_msg = "none"
    /\ AudioIdle

Next ==
    \/ ExtractCell
    \/ CreateChunksCell
    \/ InitOutputCell
    \/ OpenOutput
    \/ LoopIteration
    \/ LoopExit
    \/ ReportCell
    \/ DialogueCell

Spec == Init /\ [][Next]_vars

\* the kernel runs the cells one after the other and every remote call
\* returns: a cell that can run does run
SpecFair == Spec /\ WF_vars(Next)

\* the chunking cell alone, on every text of ChunkerTexts
InitChunker ==
    /\ pc = "create_chunks"
    /\ pdf_state = "ok"
    /\ pdf_text \in ChunkerTexts
    /\ files = [n \in FileNames |-> IF n = EXTRACTED THEN Str(pdf_text) ELSE Absent]
    /\ extracted_text = Str(pdf_text)
    /\ CHUNK_SIZE \in 1..MaxTarget
    /\ chunks = <<>>
    /\ num_chunks = 0
    /\ processed_text = <<>>
    /\ chunk_num = 0
    /\ out_open = FALSE
    /\ request_log = <<>>
    /\ calls = <<>>
    /\ podcast_content = None
    /\ reported = -1
    /\ dialogue_msg = "none"
    /\ AudioIdle

NextChunker == CreateChunksCell

SpecChunker == InitChunker /\ [][NextChunker]_vars

-----------------------------------------------------------------------------
(* Vocabulary of the properties *)

\* the chunking cell has run
Chunked == pc \in {"init_output", "open_output", "loop", "report", "dialogue", "done"}

\* the text the chunker was given
SourceText == files[EXTRACTED].s

RECURSIVE CollapseFrom(_, _, _)
\* character scan: a run of whitespace becomes one space, none at the ends
CollapseFrom(text, out, pending) ==
    IF text = <<>> THEN out
    ELSE IF Head(text) \in Whitespace
         THEN CollapseFrom(Tail(text), out, out # <<>>)
         ELSE CollapseFrom(Tail(text),
                           (IF pending THEN Append(out, " ") ELSE out)
                               \o <<Head(text)>>,
                           FALSE)

Collapse(text) == CollapseFrom(text, <<>>, FALSE)

\* the words of all the chunks, in chunk order
ChunkWords == Concat([i \in 1..Len(chunks) |-> Split(chunks[i])])

\* the chunk ends just before a chunk boundary
Boundaries == 1..(Len(chunks) - 1)

\* length of "chunk i, a space, the first word of chunk i+1"
WithNextWord(i) == Len(chunks[i]) + 1 + Len(Split(chunks[i + 1])[1])

-----------------------------------------------------------------------------
(* Chunker *)

\* C1: joining the chunks with single spaces gives the whitespace-collapsed
\* source text, and the words of the chunks are the words of the source, in
\* order, each once and whole.
C1_LosslessReconstruction ==
    Chunked =>
        /\ JoinSp(chunks) = Collapse(SourceText)
        /\ ChunkWords = Split(SourceText)
        /\ \A i \in 1..Len(chunks) : chunks[i] # <<>>

\* several chunks made from a text whose whitespace is not single spaces
C1_Witness ==
    /\ Chunked
    /\ Len(chunks) >= 3
    /\ SourceText # Collapse(SourceText)
    /\ \E i \in 1..Len(chunks) : Len(Split(chunks[i])) >= 2

\* C2: every chunk of two or more words is at most CHUNK_SIZE characters
\* long; only a single-word chunk may be longer.
C2_ChunkSizeBound ==
    Chunked =>
        \A i \in 1..Len(chunks) :
            Len(Split(chunks[i])) >= 2 => Len(chunks[i]) <= CHUNK_SIZE

\* a multi-word chunk next to a single-word chunk longer than the target
C2_Witness ==
    /\ Chunked
    /\ \E i \in 1..Len(chunks) : Len(Split(chunks[i])) >= 2
    /\ \E i \in 1..Len(chunks) : Len(chunks[i]) > CHUNK_SIZE

\* C3 as stated: at every chunk boundary the closed chunk, a space and the
\* next word together are strictly longer than CHUNK_SIZE.
C3_ClosedOnlyWhenNextWordExceeds ==
    Chunked => \A i \in Boundaries : WithNextWord(i) > CHUNK_SIZE

\* C3 amended: at every chunk boundary the closed chunk, a space and the next
\* word together are at least CHUNK_SIZE characters long (the running length
\* counts one space after every word, the last one included).
C3_ClosedWhenNextWordReachesTarget ==
    Chunked => \A i \in Boundaries : WithNextWord(i) >= CHUNK_SIZE

\* a chunk closed although the next word would have filled it exactly
C3_Witness ==
    /\ Chunked
    /\ \E i \in Boundaries :
          /\ WithNextWord(i) = CHUNK_SIZE
          /\ Len(Split(chunks[i])) >= 2

\* C4: a word longer than CHUNK_SIZE is a chunk of its own, wherever it
\* stands in the text, and no word is split across chunks.
C4_OverlongWordAlone ==
    Chunked =>
        /\ \A i \in 1..Len(chunks) :
              \A k \in 1..Len(Split(chunks[i])) :
                  Len(Split(chunks[i])[k]) > CHUNK_SIZE
                      => chunks[i] = Split(chunks[i])[k]
        /\ ChunkWords = Split(SourceText)

\* an over-long word between two chunks, in a text where short words do
\* share a chunk
C4_Witness ==
    /\ Chunked
    /\ \E i \in 2..(Len(chunks) - 1) : Len(chunks[i]) > CHUNK_SIZE
    /\ \E i \in 1..Len(chunks) : Len(Split(chunks[i])) >= 2

-----------------------------------------------------------------------------
(* Vocabulary of the pipeline properties *)

\* the chunk processing loop has completed
LoopDone == pc \in {"report", "dialogue", "done"}

\* the extraction cell of this run wrote the input file
FreshRun == Truthy(extracted_text)

\* the calls of one entry point, in call order
CallsOf(fn) == SelectSeq(calls, LAMBDA c : c.fn = fn)

RequestsOf(fn) == SelectSeq(request_log, LAMBDA r : r.fn = fn)

\* the call obtained no text from the remote model
NoText(c) == Failed(c.response) \/ c.response.content.tag # "str"

\* the result of the k-th chunk as the fallback rule gives it
ExpectedResult(k) ==
    LET c == CallsOf("process_chunk")[k] IN
    IF NoText(c) THEN chunks[k] ELSE c.response.content.s

\* the results the process_chunk calls returned, in call order
Results ==
    [k \in 1..Len(CallsOf("process_chunk")) |->
        CallsOf("process_chunk")[k].outcome.value.s]

\* each result followed by one newline
Terminated(rs) == Concat([k \in 1..Len(rs) |-> rs[k] \o <<"\n">>])

-----------------------------------------------------------------------------
(* ScriptGenerator *)

\* C5: a failed transform call does not abort the run; once the loop is over
\* there are exactly N results in chunk order, a failed position holding the
\* original chunk text and a successful one the model's text unmodified.
C5_FallbackKeepsEveryChunk ==
    /\ calls # <<>> => pc # "error"
    /\ Len(Results) = (IF LoopDone THEN Len(chunks) ELSE chunk_num)
    /\ \A k \in 1..Len(Results) :
          /\ CallsOf("process_chunk")[k].arg = Str(chunks[k])
          /\ CallsOf("process_chunk")[k].outcome.kind = "return"
          /\ Results[k] = ExpectedResult(k)
    /\ LoopDone =>
          processed_text = Concat([k \in 1..Len(chunks) |->
                                      ExpectedResult(k) \o <<"\n">>])

\* three chunks, the call for the second failed, the others returned text
C5_Witness ==
    /\ LoopDone
    /\ Len(chunks) = 3
    /\ Failed(calls[2].response)
    /\ ~NoText(calls[1]) /\ ~NoText(calls[3])
    /\ Results[2] = chunks[2]
    /\ Results[1] # chunks[1]

\* C6 as stated: the cleaned text, in memory and in the clean_ file, is the
\* chunk results with one newline between consecutive results (looked at in
\* the runs whose extraction succeeded).
C6_NewlineBetweenResults ==
    LoopDone /\ FreshRun =>
        /\ processed_text = JoinWith(Results, <<"\n">>)
        /\ files[CLEAN] = Str(JoinWith(Results, <<"\n">>))

\* C6 amended: the cleaned text, in memory and in the clean_ file, is the
\* chunk results in chunk order, each followed by one newline (N newlines
\* written by the generator, the last one ending the text).
C6_NewlineAfterEveryResult ==
    LoopDone =>
        /\ processed_text = Terminated(Results)
        /\ files[CLEAN] = Str(Terminated(Results))

\* two or more results written, one of them holding a newline of its own
C6_Witness ==
    /\ LoopDone
    /\ Len(Results) >= 2
    /\ \E k \in 1..Len(Results) : \E j \in 1..Len(Results[k]) : Results[k][j] = "\n"
    /\ processed_text # JoinWith(Results, <<"\n">>)

-----------------------------------------------------------------------------
(* TransformClient *)

\* C7 as stated: a call whose request failed ends in an error that carries
\* the cause (looked at in the runs whose extraction succeeded).
C7_FailureRaises ==
    \A k \in 1..Len(calls) :
        FreshRun /\ Failed(calls[k].response) =>
            /\ calls[k].outcome.kind = "raise"
            /\ calls[k].outcome.cause # "none"

\* C7 amended: a call whose request failed returns normally without the
\* cause: process_chunk returns the chunk it was given, generate_podcast
\* returns None.
C7_FailureReturnsNormally ==
    \A k \in 1..Len(calls) :
        Failed(calls[k].response) =>
            /\ calls[k].outcome.kind = "return"
            /\ calls[k].outcome.cause = "none"
            /\ calls[k].fn = "process_chunk" => calls[k].outcome.value = calls[k].arg
            /\ calls[k].fn = "generate_podcast" => calls[k].outcome.value = None

\* both entry points have met a failed request
C7_Witness ==
    /\ pc = "done"
    /\ \E k \in 1..Len(calls) :
          calls[k].fn = "process_chunk" /\ calls[k].response.kind = "transport_error"
    /\ \E k \in 1..Len(calls) :
          calls[k].fn = "generate_podcast" /\ calls[k].response.kind = "http_error"

\* C8: every call sends exactly one request, failed or not: the k-th request
\* is the k-th call's, a finished loop over N chunks has sent N requests and
\* a finished dialogue cell one.
C8_OneRequestPerCall ==
    /\ Len(request_log) = Len(calls)
    /\ \A k \in 1..Len(calls) :
          /\ request_log[k].fn = calls[k].fn
          /\ request_log[k].content = calls[k].arg
    /\ LoopDone => Len(RequestsOf("process_chunk")) = Len(chunks)
    /\ Len(RequestsOf("generate_podcast")) = (IF pc = "done" THEN 1 ELSE 0)

\* a finished run of three chunks in which calls failed
C8_Witness ==
    /\ pc = "done"
    /\ Len(chunks) = 3
    /\ Failed(calls[1].response)
    /\ Failed(calls[4].response)
    /\ ~Failed(calls[2].response)

-----------------------------------------------------------------------------
(* Dialogue stage *)

\* C9: the text sent to the dialogue-stage call is the cleaned text the
\* ScriptGenerator stage produced (looked at in the runs whose extraction
\* succeeded).
C9_DialogueReadsCleanedText ==
    \A k \in 1..Len(request_log) :
        FreshRun /\ request_log[k].fn = "generate_podcast" =>
            /\ request_log[k].content = Str(processed_text)
            /\ request_log[k].content = files[CLEAN]

\* the lines of a text
RECURSIVE Lines(_, _, _)
Lines(text, cur, acc) ==
    IF text = <<>> THEN Append(acc, cur)
    ELSE IF Head(text) = "\n" THEN Lines(Tail(text), <<>>, Append(acc, cur))
    ELSE Lines(Tail(text), Append(cur, Head(text)), acc)

\* a line reads as a turn: a canonical speaker label, then a non-empty text
IsTurn(line) == Len(line) >= 2 /\ line[1] \in {"S1:", "S2:"}

\* the text reads as one or more turns and nothing else
ValidTurns(text) ==
    \A k \in 1..Len(Lines(text, <<>>, <<>>)) : IsTurn(Lines(text, <<>>, <<>>)[k])

\* C10: the result of the dialogue stage is a failure (no content) or reads
\* as a sequence of turns, each with a canonical speaker and a non-empty text
\* (looked at in the runs whose extraction succeeded).
C10_ResultIsFailureOrValidTurns ==
    pc = "done" /\ FreshRun =>
        \/ ~Truthy(podcast_content)
        \/ ValidTurns(podcast_content.s)

-----------------------------------------------------------------------------
(* Extraction and the completion report *)

\* the extraction cell has run and pdf_path was missing, not a .pdf, or the
\* extraction library raised
ExtractionFailed == pc # "extract" /\ pdf_state # "ok"

\* C11: after a failed extraction there is no extracted text and the run goes
\* no further: nothing is chunked and no request is sent.
C11_ExtractionFailureIsFatal ==
    ExtractionFailed =>
        /\ extracted_text = None
        /\ chunks = <<>>
        /\ request_log = <<>>
        /\ pc \in {"create_chunks", "error"}

\* the completion report has been printed
Reported == pc \in {"dialogue", "done"}

\* C12: the chunk count the completion report prints is the number of chunks
\* the chunker produced and the loop processed (looked at in the runs whose
\* extraction succeeded).
C12_ReportedCountIsChunkCount ==
    Reported /\ FreshRun =>
        /\ reported = Len(chunks)
        /\ reported = Len(CallsOf("process_chunk"))

-----------------------------------------------------------------------------
(* Audio stage: VoiceAssigner, Synthesizer, Assembler *)

MaxTurns == 3        \* turns of a dialogue given to the audio stage
MaxVoices == 2       \* largest voice catalog

target_rate == 24000
other_rate == 22050

SpeakerLabels == {"Speaker 1", "Speaker 2", "Speaker 3"}
AllVoices == <<"voice1", "voice2", "voice3", "voice4">>
AllFormats == {"wav", "mp3"}

\* the turn sequences a compile can hand over: gapless 0-based sequence
TurnSeqs ==
    { [i \in 1..n |-> [speaker |-> sp[i], text |-> <<"x">>, sequence |-> i - 1]] :
        n \in 1..MaxTurns, sp \in [1..MaxTurns -> SpeakerLabels] }

RECURSIVE DistinctFrom(_, _)
DistinctFrom(ts, seen) ==
    IF ts = <<>> THEN seen
    ELSE IF \E k \in 1..Len(seen) : seen[k] = Head(ts).speaker
         THEN DistinctFrom(Tail(ts), seen)
         ELSE DistinctFrom(Tail(ts), Append(seen, Head(ts).speaker))

\* the distinct speakers of the turns, in order of first appearance
DistinctSpeakers(ts) == DistinctFrom(ts, <<>>)

\* position of a speaker in the order of first appearance
IndexOf(list, x) == CHOOSE k \in 1..Len(list) : list[k] = x

\* a slip: voices are reused when the catalog runs out
assign_wrapping(ts, catalog) ==
    LET d == DistinctSpeakers(ts) IN
    [ok |-> TRUE,
     map |-> [sp \in {d[k] : k \in 1..Len(d)} |->
                 catalog[((IndexOf(d, sp) - 1) % Len(catalog)) + 1]]]

\* VoiceAssigner.assign: each distinct speaker gets the next unused voice;
\* VoiceExhaustedError when the speakers outnumber the catalog
assign(ts, catalog) ==
    LET d == DistinctSpeakers(ts) IN
    IF Len(d) > Len(catalog)
    THEN [ok |-> FALSE, map |-> <<>>]
    ELSE [ok |-> TRUE,
          map |-> [sp \in {d[k] : k \in 1..Len(d)} |-> catalog[IndexOf(d, sp)]]]

\* Synthesizer.synthesize: the segment carries the turn's sequence and speaker
synthesize(turn, voice, samples, rate) ==
    [sequence |-> turn.sequence, speaker |-> turn.speaker,
     samples |-> samples, sample_rate |-> rate]

RECURSIVE Insert(_, _)
\* insertion of a segment into a list sorted by sequence
Insert(sorted, seg) ==
    IF sorted = <<>> THEN <<seg>>
    ELSE IF seg.sequence < Head(sorted).sequence THEN <<seg>> \o sorted
    ELSE <<Head(sorted)>> \o Insert(Tail(sorted), seg)

RECURSIVE SortFrom(_, _)
SortFrom(segs, sorted) ==
    IF segs = <<>> THEN sorted
    ELSE SortFrom(Tail(segs), Insert(sorted, Head(segs)))

\* a slip: the segments are taken in the order they were submitted
SortBySequence_unsorted(segs) == segs

\* Assembler: "sorts segments by sequence"
SortBySequence(segs) == SortFrom(segs, <<>>)

\* resampling of a segment to the target rate
Resample(seg) == [seg EXCEPT !.sample_rate = target_rate]

Gap == [sequence |-> -1, speaker |-> "gap", samples |-> <<"silence">>,
        sample_rate |-> target_rate]

RECURSIVE WithGaps(_)
\* a silence gap between consecutive segments
WithGaps(segs) ==
    IF Len(segs) <= 1 THEN segs
    ELSE <<Head(segs), Gap>> \o WithGaps(Tail(segs))

\* Assembler.assemble: sort, resample, pace
assemble(segs) ==
    LET sorted == SortBySequence(segs) IN
    WithGaps([k \in 1..Len(sorted) |-> Resample(sorted[k])])

\* VoiceAssigner runs before any synthesis
AssignVoices ==
    /\ audio_pc = "assign"
    /\ LET a == assign(turns, voice_catalog) IN
         IF a.ok
         THEN assignment' = a.map /\ audio_pc' = "synth"
         ELSE assignment' = assignment /\ audio_pc' = "voice_exhausted"
    /\ UNCHANGED <<turns, voice_catalog, engine_rate, formats, synth_calls,
                   submitted, track, manifest>>
    /\ UNCHANGED pipeline_vars

\* the turns not yet synthesized; they may complete in any order
Pending ==
    { i \in 1..Len(turns) :
        \A k \in 1..Len(submitted) : submitted[k].sequence # turns[i].sequence }

\* synthesis of one turn: the engine returns samples, or fails and the
\* driver substitutes silence or aborts
Synthesize ==
    /\ audio_pc = "synth"
    /\ \E i \in Pending :
         LET voice == assignment[turns[i].speaker] IN
         /\ synth_calls' = Append(synth_calls,
                                  [sequence |-> turns[i].sequence, voice |-> voice])
         /\ \/ /\ submitted' = Append(submitted,
                      synthesize(turns[i], voice, <<voice, turns[i].text>>, engine_rate))
               /\ UNCHANGED audio_pc
            \/ /\ submitted' = Append(submitted,
                      synthesize(turns[i], voice, <<"silence">>, target_rate))
               /\ UNCHANGED audio_pc
            \/ /\ audio_pc' = "synthesis_error"
               /\ UNCHANGED submitted
    /\ UNCHANGED <<turns, voice_catalog, engine_rate, formats, assignment,
                   track, manifest>>
    /\ UNCHANGED pipeline_vars

\* Assembler: every turn has a segment; the track is built and exported,
\* a format that cannot be written does not invalidate the others
Assemble ==
    /\ audio_pc = "synth"
    /\ Pending = {}
    /\ track' = assemble(submitted)
    /\ \E written \in SUBSET formats : manifest' = written
    /\ audio_pc' = "assembled"
    /\ UNCHANGED <<turns, voice_catalog, engine_rate, formats, assignment,
                   synth_calls, submitted>>
    /\ UNCHANGED pipeline_vars

\* the audio stage on every turn sequence of TurnSeqs
InitAudio ==
    /\ pc = "done"
    /\ pdf_state = "ok"
    /\ pdf_text = <<>>
    /\ files = [n \in FileNames |-> Absent]
    /\ extracted_text = None
    /\ CHUNK_SIZE = 1
    /\ chunks = <<>>
    /\ num_chunks = 0
    /\ processed_text = <<>>
    /\ chunk_num = 0
    /\ out_open = FALSE
    /\ request_log = <<>>
    /\ calls = <<>>
    /\ podcast_content = None
    /\ reported = -1
    /\ dialogue_msg = "none"
    /\ turns \in TurnSeqs
    /\ \E n \in 1..MaxVoices : voice_catalog = SubSeq(AllVoices, 1, n)
    /\ engine_rate \in {target_rate, other_rate}
    /\ formats = AllFormats
    /\ audio_pc = "assign"
    /\ assignment = <<>>
    /\ synth_calls = <<>>
    /\ submitted = <<>>
    /\ track = <<>>
    /\ manifest = {}

NextAudio ==
    \/ AssignVoices
    \/ Synthesize
    \/ Assemble

SpecAudio == InitAudio /\ [][NextAudio]_vars

-----------------------------------------------------------------------------
(* Assembler and VoiceAssigner *)

\* the audio segments of the track, without the pacing gaps
TrackSegments == SelectSeq(track, LAMBDA x : x.speaker # "gap")

\* C13: whatever the order in which the segments were completed, the track
\* holds every submitted segment exactly once, in increasing sequence order,
\* so that its speakers follow the order of the turns.
C13_TrackInSequenceOrder ==
    audio_pc = "assembled" =>
        /\ Len(TrackSegments) = Len(submitted)
        /\ \A k \in 1..Len(TrackSegments) :
              /\ TrackSegments[k].sequence = k - 1
              /\ TrackSegments[k].speaker = turns[k].speaker
        /\ \A j \in 1..Len(submitted) :
              Cardinality({k \in 1..Len(TrackSegments) :
                              TrackSegments[k] = Resample(submitted[j])}) = 1

\* three segments completed out of order, from two speakers
C13_Witness ==
    /\ audio_pc = "assembled"
    /\ Len(submitted) = 3
    /\ submitted[1].sequence = 2
    /\ submitted[2].sequence = 0
    /\ turns[1].speaker # turns[2].speaker

\* the speakers outnumber the voices
Exhausted == Len(DistinctSpeakers(turns)) > Len(voice_catalog)

\* the speakers of the turns
SpeakerSet == {turns[i].speaker : i \in 1..Len(turns)}

\* state part of C14
VoicesSettled ==
    IF Exhausted
    THEN /\ synth_calls = <<>>
         /\ audio_pc \in {"assign", "voice_exhausted"}
    ELSE audio_pc # "assign" =>
            /\ DOMAIN assignment = SpeakerSet
            /\ \A a, b \in SpeakerSet : assignment[a] = assignment[b] => a = b
            /\ \A a \in SpeakerSet :
                  \E k \in 1..Len(voice_catalog) : assignment[a] = voice_catalog[k]
            /\ assignment[turns[1].speaker] = voice_catalog[1]
            /\ \A c \in 1..Len(synth_calls) :
                  synth_calls[c].voice =
                      assignment[turns[synth_calls[c].sequence + 1].speaker]

\* C14: when the speakers outnumber the voices the run fails before any
\* synthesis call and none is made afterwards; otherwise every speaker has
\* exactly one voice of the catalog, the first-seen speaker the first voice,
\* every synthesis call uses the speaker's voice, and the mapping, once made,
\* never changes.
C14_VoiceExhaustionPrecedesSynthesis ==
    [][ /\ VoicesSettled'
        /\ Exhausted => audio_pc' = "voice_exhausted"
        /\ audio_pc # "assign" => assignment' = assignment ]_vars

\* three speakers, two voices: the run has failed with no synthesis call
C14_Witness ==
    /\ audio_pc = "voice_exhausted"
    /\ Len(DistinctSpeakers(turns)) = 3
    /\ Len(voice_catalog) = 2
    /\ synth_calls = <<>>

-----------------------------------------------------------------------------
(* The chunk processing loop and the dialogue file *)

\* the clean_ file is open or has been written
Writing == pc \in {"loop", "report", "dialogue", "done"}

IsPrefix(a, b) == Len(a) <= Len(b) /\ SubSeq(b, 1, Len(a)) = a

\* C15: at every point of the loop the clean_ file holds what processed_text
\* holds, namely the results of the chunk_num chunks handled so far, in chunk
\* order, each written after its call returned; what is written is only ever
\* extended.
C15_SingleOrderedWriter ==
    [][ /\ Writing' =>
             /\ files'[CLEAN] = Str(processed_text')
             /\ processed_text' = Terminated(Results')
             /\ Len(Results') = chunk_num'
             /\ \A k \in 1..chunk_num' :
                   CallsOf("process_chunk")'[k].arg = Str(chunks'[k])
        /\ Writing /\ Writing' =>
             /\ IsPrefix(processed_text, processed_text')
             /\ IsPrefix(files[CLEAN].s, files'[CLEAN].s) ]_vars

\* two of three chunks handled, with different results
C15_Witness ==
    /\ pc = "loop"
    /\ Len(chunks) = 3
    /\ chunk_num = 2
    /\ Results[1] # Results[2]
    /\ files[CLEAN] = Str(processed_text)

\* C16: when every remote call returns, a loop that has started completes,
\* and the calls made are one per chunk, in increasing chunk index.
C16_LoopCompletesOncePerChunk ==
    /\ (pc = "loop") ~> LoopDone
    /\ [](/\ Len(CallsOf("process_chunk")) <= Len(chunks)
          /\ \A k \in 1..Len(CallsOf("process_chunk")) :
                CallsOf("process_chunk")[k].arg = Str(chunks[k])
          /\ pc = "loop" => Len(CallsOf("process_chunk")) = chunk_num
          /\ LoopDone => Len(CallsOf("process_chunk")) = Len(chunks))

\* a loop over three chunks completed although its first call failed
C16_Witness ==
    /\ pc = "report"
    /\ Len(chunks) = 3
    /\ Len(CallsOf("process_chunk")) = 3
    /\ Failed(calls[1].response)
    /\ ~Failed(calls[3].response)

\* the value is a non-empty text
HasText(v) == v.tag = "str" /\ v.s # <<>>

\* C17: the dialogue file changes only in the dialogue cell, only when the
\* call returned a non-empty text, and then holds that text unmodified; when
\* the call failed or returned an empty text the file is left as it was and
\* the failure is reported.
C17_NoDialogueFileOnFailure ==
    [][ /\ files'[PODCAST] # files[PODCAST] =>
             /\ pc = "dialogue"
             /\ HasText(podcast_content')
             /\ files'[PODCAST] = podcast_content'
             /\ podcast_content' = calls'[Len(calls')].response.content
             /\ ~Failed(calls'[Len(calls')].response)
             /\ dialogue_msg' = "saved"
        /\ pc = "dialogue" /\ ~HasText(calls'[Len(calls')].outcome.value) =>
             /\ pc' = "done"
             /\ files'[PODCAST] = files[PODCAST]
             /\ dialogue_msg' = "failed" ]_vars

\* an earlier run's dialogue file survives a call that returned an empty text
C17_Witness ==
    /\ pc = "done"
    /\ files[PODCAST] = Str(StaleText)
    /\ podcast_content = Str(<<>>)
    /\ dialogue_msg = "failed"

=============================================================================
